---- MODULE Spec2Model ----
(***************************************************************************)
(* Model of wand.image.Image (src/wand/image.py): the lifecycle of the     *)
(* native MagickWand handles that Image objects refer to, the              *)
(* process-wide resource counter, the severity-mapped exception check,    *)
(* and the translation of a 2-D index expression into a crop rectangle.   *)
(***************************************************************************)
EXTENDS Integers, Sequences, FiniteSets, TLC

\* ------------------------------------------------------------------ bounds
MaxImages == 2
MaxDim == 2
MaxIdx == 2
MaxDirect == 1

\* ------------------------------------------------------- python values
PyNone == [t |-> "none", v |-> 0, s |-> ""]
PyInt(n) == [t |-> "int", v |-> n, s |-> ""]
PyFloat == [t |-> "float", v |-> 0, s |-> ""]
PyFraction == [t |-> "fraction", v |-> 0, s |-> ""]
PyStr(x) == [t |-> "str", v |-> 0, s |-> x]
PyChunks == [t |-> "chunks", v |-> 0, s |-> ""]
PyBadChunks == [t |-> "badchunks", v |-> 0, s |-> ""]
PyImage(j) == [t |-> "image", v |-> j, s |-> ""]

IsNone(a) == a.t = "none"
\* isinstance(a, numbers.Integral)
IsIntegral(a) == a.t = "int"
\* isinstance(a, numbers.Rational): int, long and Fraction, not float
IsRational(a) == a.t \in {"int", "fraction"}
\* isinstance(a, basestring)
IsString(a) == a.t = "str"
\* isinstance(a, collections.Iterable)
IsIterable(a) == a.t \in {"str", "chunks", "badchunks"}

Max(a, b) == IF a > b THEN a ELSE b
Min(a, b) == IF a < b THEN a ELSE b

FILTER_TYPES ==
  << "undefined", "point", "box", "triangle", "hermite", "hanning",
     "hamming", "blackman", "gaussian", "quadratic", "cubic",
     "catrom", "mitchell", "lanczos", "bessel", "sinc" >>

\* ---------------------------------------------- severity -> exception kind
Severities == {0, 300, 400}

TYPE_MAP(severity) == IF severity < 400 THEN "MagickWarning" ELSE "MagickError"

\* isinstance(e, Warning)
IsWarning(e) == e = "MagickWarning"

\* get_exception (lines 147-161): the exception instance for the handle's
\* severity, or "none"
get_exception(severity) == IF severity = 0 THEN "none" ELSE TYPE_MAP(severity)

\* raise_exception (lines 163-169): a warning is emitted, an error is raised
raise_exception(severity) ==
  LET e == get_exception(severity)
  IN  [exc |-> IF e # "none" /\ ~IsWarning(e) THEN e ELSE "none",
       warned |-> e # "none" /\ IsWarning(e)]

\* --------------------------------------------------------- index values
Slice(a, b, c) == [isslice |-> TRUE, value |-> PyNone,
                   start |-> a, stop |-> b, step |-> c]
Single(a) == [isslice |-> FALSE, value |-> a,
              start |-> PyNone, stop |-> PyNone, step |-> PyNone]
\* an index expression: a non-iterable object, or a tuple of components
Idx(items) == [iterable |-> TRUE, items |-> items]
ScalarIdx == [iterable |-> FALSE, items |-> <<>>]

NoRect == [x |-> 0, y |-> 0, w |-> 0, h |-> 0]

\* abs_ without the count from the end for a negative bound
abs_NoWrap(n, m, null) ==
  IF IsNone(n) THEN [exc |-> "none", v |-> IF IsNone(null) THEN m ELSE null.v]
  ELSE IF ~IsIntegral(n) THEN [exc |-> "TypeError", v |-> 0]
  ELSE IF n.v > m THEN [exc |-> "IndexError", v |-> 0]
  ELSE [exc |-> "none", v |-> n.v]

\* abs_(n, m, null) of __getitem__ (lines 225-232)
abs_(n, m, null) ==
  IF IsNone(n) THEN [exc |-> "none", v |-> IF IsNone(null) THEN m ELSE null.v]
  ELSE IF ~IsIntegral(n) THEN [exc |-> "TypeError", v |-> 0]
  ELSE IF n.v > m THEN [exc |-> "IndexError", v |-> 0]
  ELSE [exc |-> "none", v |-> IF n.v < 0 THEN m + n.v ELSE n.v]

\* slice(v, v + 1) built from a single value v
OneElement(c) ==
  IF c.value.t = "int"
  THEN [exc |-> "none", s |-> Slice(c.value, PyInt(c.value.v + 1), PyNone)]
  ELSE IF c.value.t \in {"float", "fraction"}
  THEN [exc |-> "none", s |-> Slice(c.value, c.value, PyNone)]
  ELSE [exc |-> "TypeError", s |-> c]

Raise(e) == [act |-> "raise", exc |-> e, rect |-> NoRect]

\* lines 233-245: the bounds of two slices resolved against an open image
Resolve(x, y, W, H) ==
  LET x_start == abs_(x.start, W, PyInt(0))
      x_stop == abs_(x.stop, W, PyNone)
      y_start == abs_(y.start, H, PyInt(0))
      y_stop == abs_(y.stop, H, PyNone)
      width == x_stop.v - x_start.v
      height == y_stop.v - y_start.v
  IN  IF x_start.exc # "none" THEN Raise(x_start.exc)
      ELSE IF x_stop.exc # "none" THEN Raise(x_stop.exc)
      ELSE IF y_start.exc # "none" THEN Raise(y_start.exc)
      ELSE IF y_stop.exc # "none" THEN Raise(y_stop.exc)
      ELSE IF width < 1 THEN Raise("ValueError")
      ELSE IF height < 1 THEN Raise("ValueError")
      ELSE [act |-> "crop", exc |-> "none",
            rect |-> [x |-> x_start.v, y |-> y_start.v,
                      w |-> width, h |-> height]]

\* lines 220-245 once both components are slices; crash tells that the
\* native read of the size ends the process
Slices(x, y, open, crash, W, H) ==
  IF ~(IsNone(x.step) /\ IsNone(y.step)) THEN Raise("ValueError")
  ELSE IF IsNone(x.start) /\ IsNone(x.stop) /\ IsNone(y.start) /\ IsNone(y.stop)
  THEN [act |-> "clone", exc |-> "none", rect |-> NoRect]
  ELSE IF ~open THEN Raise("ClosedImageError")
  ELSE IF crash THEN Raise("abort")
  ELSE Resolve(x, y, W, H)

\* __getitem__ up to the point where it clones: what the index asks for
Plan(idx, open, crash, W, H) ==
  IF ~idx.iterable THEN Raise("NotImplementedError")
  ELSE IF ~(1 <= Len(idx.items) /\ Len(idx.items) <= 2) THEN Raise("ValueError")
  ELSE IF Len(idx.items) = 1 THEN Raise("NotImplementedError")
  ELSE LET x == idx.items[1]
           y == idx.items[2]
       IN  IF x.isslice /\ ~y.isslice
           THEN IF OneElement(y).exc # "none" THEN Raise(OneElement(y).exc)
                ELSE Slices(x, OneElement(y).s, open, crash, W, H)
           ELSE IF ~x.isslice /\ y.isslice
           THEN IF OneElement(x).exc # "none" THEN Raise(OneElement(x).exc)
                ELSE Slices(OneElement(x).s, y, open, crash, W, H)
           ELSE IF ~(x.isslice \/ y.isslice) THEN Raise("NotImplementedError")
           ELSE Slices(x, y, open, crash, W, H)

\* ------------------------------------------ native MagickWand handles
\* addresses the native library can place a MagickWand at: one for the
\* handle of every image, one for every handle the caller makes itself and
\* one more, so that memory is never exhausted
MaxWands == MaxImages + MaxDirect + 1

WandIds == 1..MaxWands

\* the memory at an address: free, a live MagickWand with the size and the
\* pending severity of its image, or a MagickWand that was destroyed;
\* destroys counts the DestroyMagickWand calls on the wand placed there
NoWand == [state |-> "free", width |-> 0, height |-> 0, severity |-> 0,
           destroys |-> 0]

NewWand(w, h, sev) == [NoWand EXCEPT !.state = "live", !.width = w,
                                     !.height = h, !.severity = sev]

Destroyed(n) == [NoWand EXCEPT !.state = "destroyed", !.destroys = n]

\* what a native call does when the handle it is given is not a live
\* MagickWand, which the library leaves undefined: it ends the process
\* (abort), or it returns, and then ok, w, h and sev are what it reads from
\* the memory
Undefined(abort, ok, w, h, sev) ==
  [abort |-> abort, ok |-> ok, w |-> w, h |-> h, sev |-> sev]

\* a native call on a live MagickWand
Defined == Undefined(FALSE, FALSE, 0, 0, 0)

Live(ws, x) == x \in WandIds /\ ws[x].state = "live"

\* the native call through handle x ends the process
Aborts(ws, x, ub) == ~Live(ws, x) /\ ub.abort

\* the wand a native call reads through handle x
At(ws, x, ub) ==
  IF Live(ws, x) THEN ws[x]
  ELSE [Destroyed(0) EXCEPT !.width = ub.w, !.height = ub.h,
                            !.severity = ub.sev]

\* the memory after a native call left the wand hw behind handle x; what is
\* written through a handle that is not live is lost
On(ws, x, hw) == IF Live(ws, x) THEN [ws EXCEPT ![x] = hw] ELSE ws

\* library.IsMagickWand(x) (line 137)
IsMagickWand(ws, x, ub) == Live(ws, x) \/ ub.ok

\* library.DestroyMagickWand(x) (line 144), when it returns
DestroyMagickWand(ws, x) ==
  IF x \in WandIds THEN [ws EXCEPT ![x] = Destroyed(ws[x].destroys + 1)]
  ELSE ws

\* the severity a handle holds after a native call that recorded sev
Pending(old, sev) == IF sev # 0 THEN sev ELSE old

\* library.MagickResizeImage (line 314); nsev is the severity it records
MagickResizeImage(hw, w, h, nsev) ==
  IF nsev = 0 THEN [hw EXCEPT !.width = w, !.height = h]
  ELSE [hw EXCEPT !.severity = nsev]

\* library.MagickCropImage (lines 244-245) applied to the clone's wand
MagickCropImage(hw, rect, sev) ==
  IF sev # 0 THEN [hw EXCEPT !.severity = sev]
  ELSE [hw EXCEPT
          !.width = Max(0, Min(hw.width, rect.x + rect.w) - Max(0, rect.x)),
          !.height = Max(0, Min(hw.height, rect.y + rect.h) - Max(0, rect.y))]

\* ------------------------------------------------------- Image objects
\* wand tells what the slot _wand holds: nothing yet (unset), None, or a
\* handle, and then h is the address the handle points at
Unborn == [phase |-> "unborn", ctor |-> "none", wand |-> "unset", h |-> 0,
           incs |-> 0, decs |-> 0, destroys |-> 0, held |-> FALSE,
           direct |-> 0]

\* the object allocated for a constructor call, before __init__ runs
Allocated == [Unborn EXCEPT !.phase = "alive"]

\* the native library's part of a call: whether the handle it returns is a
\* MagickWand, the severity it records on the handle, the decoded size
Native(valid, sev, w, h) == [valid |-> valid, sev |-> sev, w |-> w, h |-> h]

\* a wand getter that hands out the reference without looking at it
wand_Unchecked(obj) == "none"

\* the wand getter (lines 125-133) as used by an operation on the image
wand(obj) ==
  IF obj.wand = "unset" THEN "AttributeError"
  ELSE IF obj.wand = "none" THEN "ClosedImageError"
  ELSE "none"

\* self.wand handed to a native call: the getter's error, the end of the
\* process, or none
Use(obj, ws, ub) ==
  IF wand(obj) # "none" THEN wand(obj)
  ELSE IF Aborts(ws, obj.h, ub) THEN "abort"
  ELSE "none"

\* the wand setter (lines 135-140): iswand is IsMagickWand's answer for the
\* handle x
wand_setter(obj, x, iswand) ==
  IF ~iswand THEN [obj |-> obj, exc |-> "TypeError"]
  ELSE [obj |-> [obj EXCEPT !.wand = "handle", !.h = x], exc |-> "none"]

\* the process ends inside a call on obj
Abort(obj, ws) ==
  [obj |-> obj, ws |-> ws, exc |-> "abort", warned |-> FALSE, observed |-> {}]

\* what a failing constructor leaves behind (lines 120-122 when counted)
Failed(obj, ws, e) ==
  [obj |-> [obj EXCEPT !.ctor = "raised", !.decs = obj.incs], ws |-> ws,
   exc |-> e, warned |-> FALSE, observed |-> {}]

\* line 123: self.raise_exception() on the handle the constructor set
Checked(obj, ws) ==
  LET sev == ws[obj.h].severity
      r == raise_exception(sev)
  IN  [obj |-> [obj EXCEPT !.ctor = IF r.exc = "none" THEN "ok" ELSE "raised",
                           !.held = r.exc = "none"],
       ws |-> [ws EXCEPT ![obj.h].severity = 0],
       exc |-> r.exc, warned |-> r.warned,
       observed |-> IF sev = 0 THEN {} ELSE {sev}]

\* lines 98-122: the body of __init__ after increment_refcount(); a is the
\* address at which the native library places the wand it makes
InitBody(obj, ws, a, image, blob, filename, src, nat, ub) ==
  LET set == wand_setter(obj, a, nat.valid)
  IN  IF ~IsNone(image)
      THEN IF image.t # "image" THEN Failed(obj, ws, "TypeError")
           ELSE IF wand(src) # "none" THEN Failed(obj, ws, wand(src))
           ELSE IF Aborts(ws, src.h, ub) THEN Abort(obj, ws)
           ELSE IF set.exc # "none" THEN Failed(obj, ws, set.exc)
           ELSE Checked(set.obj,
                        [ws EXCEPT ![a] = NewWand(At(ws, src.h, ub).width,
                                                  At(ws, src.h, ub).height,
                                                  nat.sev)])
      ELSE IF set.exc # "none" THEN Failed(obj, ws, set.exc)
      ELSE IF ~IsNone(blob) /\ ~IsIterable(blob)
           THEN Failed(set.obj, [ws EXCEPT ![a] = NewWand(0, 0, 0)],
                       "TypeError")
      ELSE IF ~IsNone(blob) /\ blob.t = "badchunks"
           THEN Failed(set.obj, [ws EXCEPT ![a] = NewWand(0, 0, 0)],
                       "TypeError")
      ELSE Checked(set.obj,
                   [ws EXCEPT ![a] =
                      NewWand(IF nat.sev >= 400 THEN 0 ELSE nat.w,
                              IF nat.sev >= 400 THEN 0 ELSE nat.h,
                              nat.sev)])

\* spec-modelled wand.resource: the counter moves by one per call
increment_refcount(n) == n + 1

decrement_refcount(n) == n - 1

\* Image.__init__ (lines 89-123) applied to a newly allocated object
Image__init__(ws, a, image, blob, filename, src, nat, ub) ==
  LET given == Cardinality({k \in 1..3 : ~IsNone(<<image, blob, filename>>[k])})
  IN  IF given # 1 THEN Failed(Allocated, ws, "TypeError")
      ELSE InitBody([Allocated EXCEPT !.incs = 1], ws, a,
                    image, blob, filename, src, nat, ub)

\* the wand deleter (lines 142-145)
wand_deleter(obj, ws, ub) ==
  IF Use(obj, ws, ub) # "none"
  THEN [obj |-> obj, ws |-> ws, exc |-> Use(obj, ws, ub)]
  ELSE [obj |-> [obj EXCEPT !.wand = "none", !.h = 0, !.destroys = @ + 1],
        ws |-> DestroyMagickWand(ws, obj.h), exc |-> "none"]

\* close with a deleter that destroys the handle but keeps the reference
close_NoNull(obj, ws, ub) ==
  IF Use(obj, ws, ub) # "none"
  THEN [obj |-> obj, ws |-> ws, exc |-> Use(obj, ws, ub)]
  ELSE [obj |-> [obj EXCEPT !.destroys = @ + 1, !.decs = @ + 1],
        ws |-> DestroyMagickWand(ws, obj.h), exc |-> "none"]

\* Image.close (lines 180-187): del self.wand, then decrement_refcount()
close(obj, ws, ub) ==
  LET d == wand_deleter(obj, ws, ub)
  IN  IF d.exc # "none" THEN d
      ELSE [d EXCEPT !.obj = [d.obj EXCEPT !.decs = @ + 1]]

Range(f) == {f[k] : k \in DOMAIN f}

\* Image.resize (lines 267-314); nsev is what the native resize records
resize(obj, ws, ub, width, height, filter, blur, nsev) ==
  LET seen == At(ws, obj.h, ub)
      w == IF IsNone(width) THEN PyInt(seen.width) ELSE width
      h == IF IsNone(height) THEN PyInt(seen.height) ELSE height
      fail(e) == [ws |-> ws, exc |-> e, nsev |-> 0]
  IN  IF IsNone(width) /\ Use(obj, ws, ub) # "none" THEN fail(Use(obj, ws, ub))
      ELSE IF IsNone(height) /\ Use(obj, ws, ub) # "none"
      THEN fail(Use(obj, ws, ub))
      ELSE IF ~IsIntegral(w) THEN fail("TypeError")
      ELSE IF ~IsIntegral(h) THEN fail("TypeError")
      ELSE IF w.v < 1 THEN fail("ValueError")
      ELSE IF h.v < 1 THEN fail("ValueError")
      ELSE IF ~IsRational(blur) THEN fail("TypeError")
      ELSE IF ~(IsString(filter) \/ IsIntegral(filter)) THEN fail("TypeError")
      ELSE IF IsString(filter) /\ filter.s \notin Range(FILTER_TYPES)
      THEN fail("ValueError")
      ELSE IF IsIntegral(filter)
              /\ ~(0 <= filter.v /\ filter.v < Len(FILTER_TYPES))
      THEN fail("ValueError")
      ELSE IF Use(obj, ws, ub) # "none" THEN fail(Use(obj, ws, ub))
      ELSE [ws |-> On(ws, obj.h, MagickResizeImage(seen, w.v, h.v, nsev)),
            exc |-> "none", nsev |-> nsev]

\* Image.save (lines 316-327); r and nsev are the native write's result
save(obj, ws, ub, filename, r, nsev) ==
  IF ~IsString(filename)
  THEN [ws |-> ws, exc |-> "TypeError", nsev |-> 0, observed |-> {}]
  ELSE IF Use(obj, ws, ub) # "none"
  THEN [ws |-> ws, exc |-> Use(obj, ws, ub), nsev |-> 0, observed |-> {}]
  ELSE LET seen == At(ws, obj.h, ub)
           sev == Pending(seen.severity, nsev)
       IN  IF r
           THEN [ws |-> On(ws, obj.h, [seen EXCEPT !.severity = sev]),
                 exc |-> "none", nsev |-> nsev, observed |-> {}]
           ELSE [ws |-> On(ws, obj.h, [seen EXCEPT !.severity = 0]),
                 exc |-> IF get_exception(sev) = "none" THEN "TypeError"
                         ELSE get_exception(sev),
                 nsev |-> nsev,
                 observed |-> IF sev = 0 THEN {} ELSE {sev}]

\* Image.make_blob (lines 329-350); r is MagickSetImageFormat's result
make_blob(obj, ws, ub, format, r) ==
  IF ~IsString(format) THEN "TypeError"
  ELSE IF Use(obj, ws, ub) # "none" THEN Use(obj, ws, ub)
  ELSE IF ~r THEN "ValueError"
  ELSE "none"

\* ------------------------------------------------------------- state
VARIABLES img, wands, reference_count, initial_count, last

vars == <<img, wands, reference_count, initial_count, last>>

Ids == 1..MaxImages

NoCall == [op |-> "none", self |-> 0, closed |-> FALSE, prew |-> 0, preh |-> 0,
           args |-> <<>>, idx |-> ScalarIdx,
           exc |-> "none", warned |-> FALSE, observed |-> {}, nsev |-> 0,
           new |-> 0, cropped |-> FALSE, rect |-> NoRect, ret |-> <<>>,
           got |-> "none"]

\* the size of the image behind the handle of image i
WidthOf(i) == At(wands, img[i].h, Defined).width

HeightOf(i) == At(wands, img[i].h, Defined).height

\* a call of method op on image i, before its outcome is known
Call(op, i) == [NoCall EXCEPT !.op = op, !.self = i,
                              !.closed = img[i].destroys > 0,
                              !.prew = WidthOf(i), !.preh = HeightOf(i)]

\* the record of a call that ended with exc; a native call that ended the
\* process leaves nothing to a caller
Done(exc, call) == IF exc = "abort" THEN [NoCall EXCEPT !.op = "abort"] ELSE call

\* the process has not been ended by a native call
Running == last.op # "abort"

HasFree == Running /\ \E i \in Ids : img[i].phase = "unborn"

NewId == CHOOSE i \in Ids : /\ img[i].phase = "unborn"
                            /\ \A j \in 1..(i - 1) : img[j].phase # "unborn"

\* the caller holds a reference to image i: the call that made it returned it
Held(i) == Running /\ img[i].phase = "alive" /\ img[i].held

\* image i refers to a wand that was destroyed through another reference
Dangling(i) == img[i].wand = "handle" /\ ~Live(wands, img[i].h)

\* where the native library can place a new wand: unused memory (reusing
\* memory that no image refers to is no different), or the memory of a
\* destroyed wand that an image still refers to
Allocatable ==
  {x \in WandIds :
     \/ /\ wands[x].state = "free"
        /\ \A y \in 1..(x - 1) : wands[y].state # "free"
     \/ /\ wands[x].state = "destroyed"
        /\ \E i \in Ids : img[i].wand = "handle" /\ img[i].h = x}

\* the counter after the increments and decrements that took before to after
Track(n, before, after) ==
  LET n1 == IF after.incs > before.incs THEN increment_refcount(n) ELSE n
  IN  IF after.decs > before.decs THEN decrement_refcount(n1) ELSE n1

\* counter values before the first modelled call; every action moves the
\* counter relative to its value, so other starting values add nothing
InitialCounts == {0, 1}

\* no Image exists yet; the counter holds the handles of images opened
\* before the modelled calls
Init ==
  /\ img = [i \in Ids |-> Unborn]
  /\ wands = [x \in WandIds |-> NoWand]
  /\ initial_count \in InitialCounts
  /\ reference_count = initial_count
  /\ last = NoCall

\* Image(image=..., blob=..., filename=...)
Construct(image, blob, filename, nat, a, ub) ==
  /\ HasFree
  /\ a \in Allocatable
  /\ image.t = "image" => Held(image.v)
  /\ LET src == IF image.t = "image" THEN img[image.v] ELSE Unborn
         c == Image__init__(wands, a, image, blob, filename, src, nat, ub)
     IN  /\ img' = [img EXCEPT ![NewId] = c.obj]
         /\ wands' = c.ws
         /\ reference_count' = Track(reference_count, Unborn, c.obj)
         /\ last' = Done(c.exc,
                         [NoCall EXCEPT !.op = "__init__", !.self = NewId,
                                        !.args = <<image, blob, filename>>,
                                        !.exc = c.exc, !.warned = c.warned,
                                        !.observed = c.observed,
                                        !.nsev = nat.sev, !.new = NewId])
  /\ UNCHANGED initial_count

\* Image.clone (lines 189-201)
Clone(i, nat, a, ub) ==
  /\ Held(i)
  /\ HasFree
  /\ a \in Allocatable
  /\ LET c == Image__init__(wands, a, PyImage(i), PyNone, PyNone, img[i],
                            nat, ub)
     IN  /\ img' = [img EXCEPT ![NewId] = c.obj]
         /\ wands' = c.ws
         /\ reference_count' = Track(reference_count, Unborn, c.obj)
         /\ last' = Done(c.exc, [Call("clone", i) EXCEPT !.exc = c.exc,
                                                        !.warned = c.warned,
                                                        !.observed = c.observed,
                                                        !.new = NewId])
  /\ UNCHANGED initial_count

\* how often the holders of the images in S assigned or deleted a wand
\* property themselves
RECURSIVE DirectUses(_)
DirectUses(S) ==
  IF S = {} THEN 0
  ELSE LET i == CHOOSE j \in S : TRUE
       IN  img[i].direct + DirectUses(S \ {i})

\* image i after its holder assigned or deleted its wand property
Direct(obj, exc) == [obj EXCEPT !.direct = IF exc = "none" THEN @ + 1 ELSE @]

\* del image.wand by the holder of the image (lines 142-145): the handle is
\* destroyed and the counter is left alone
DelWand(i, ub) ==
  /\ Held(i)
  /\ DirectUses(Ids) < MaxDirect
  /\ LET c == wand_deleter(img[i], wands, ub)
     IN  /\ img' = [img EXCEPT ![i] = Direct(c.obj, c.exc)]
         /\ wands' = c.ws
         /\ last' = Done(c.exc, [Call("del wand", i) EXCEPT !.exc = c.exc])
  /\ UNCHANGED <<reference_count, initial_count>>

\* image.wand = handle (lines 135-140) with a handle the holder of the image
\* got from the native library itself: a wand placed at a that holds the
\* image nat describes, or not a MagickWand; the handle the image held is
\* replaced and not destroyed
SetWand(i, nat, a) ==
  /\ Held(i)
  /\ DirectUses(Ids) < MaxDirect
  /\ a \in Allocatable
  /\ LET c == wand_setter(img[i], a, nat.valid)
     IN  /\ img' = [img EXCEPT ![i] = Direct(c.obj, c.exc)]
         /\ wands' = IF nat.valid
                     THEN [wands EXCEPT ![a] = NewWand(nat.w, nat.h, nat.sev)]
                     ELSE wands
         /\ last' = [Call("set wand", i) EXCEPT !.exc = c.exc]
  /\ UNCHANGED <<reference_count, initial_count>>

\* image.wand = other.wand (lines 125-140): the getter of image j, then the
\* setter of image i; both images then refer to one wand
ShareWand(i, j, ub) ==
  /\ Held(i)
  /\ Held(j)
  /\ DirectUses(Ids) < MaxDirect
  /\ LET got == Use(img[j], wands, ub)
         c == wand_setter(img[i], img[j].h,
                          IsMagickWand(wands, img[j].h, ub))
         exc == IF got # "none" THEN got ELSE c.exc
     IN  /\ img' = [img EXCEPT ![i] = IF got # "none" THEN img[i]
                                      ELSE Direct(c.obj, c.exc)]
         /\ last' = Done(exc, [Call("set wand", i) EXCEPT !.exc = exc])
  /\ UNCHANGED <<wands, reference_count, initial_count>>

\* image.get_exception() called directly (lines 147-161): the pending
\* exception is returned and cleared
GetException(i, ub) ==
  /\ Held(i)
  /\ LET exc == Use(img[i], wands, ub)
         seen == At(wands, img[i].h, ub)
         call == Call("get_exception", i)
     IN  IF exc # "none"
         THEN /\ last' = Done(exc, [call EXCEPT !.exc = exc])
              /\ UNCHANGED wands
         ELSE /\ wands' = On(wands, img[i].h, [seen EXCEPT !.severity = 0])
              /\ last' = [call EXCEPT
                            !.got = get_exception(seen.severity),
                            !.observed = IF seen.severity = 0 THEN {}
                                         ELSE {seen.severity}]
  /\ UNCHANGED <<img, reference_count, initial_count>>

\* image.raise_exception() called directly (lines 163-169)
RaiseException(i, ub) ==
  /\ Held(i)
  /\ LET exc == Use(img[i], wands, ub)
         seen == At(wands, img[i].h, ub)
         call == Call("raise_exception", i)
     IN  IF exc # "none"
         THEN /\ last' = Done(exc, [call EXCEPT !.exc = exc])
              /\ UNCHANGED wands
         ELSE /\ wands' = On(wands, img[i].h, [seen EXCEPT !.severity = 0])
              /\ last' = [call EXCEPT
                            !.exc = raise_exception(seen.severity).exc,
                            !.warned = raise_exception(seen.severity).warned,
                            !.observed = IF seen.severity = 0 THEN {}
                                         ELSE {seen.severity}]
  /\ UNCHANGED <<img, reference_count, initial_count>>

\* Image.close called by the holder of the image
Close(i, ub) ==
  /\ Held(i)
  /\ LET c == close(img[i], wands, ub)
     IN  /\ img' = [img EXCEPT ![i] = c.obj]
         /\ wands' = c.ws
         /\ reference_count' = Track(reference_count, img[i], c.obj)
         /\ last' = Done(c.exc, [Call("close", i) EXCEPT !.exc = c.exc])
  /\ UNCHANGED initial_count

\* Image.__exit__ (lines 174-175): the end of a with block
Exit(i, ub) ==
  /\ Held(i)
  /\ LET c == close(img[i], wands, ub)
     IN  /\ img' = [img EXCEPT ![i] = c.obj]
         /\ wands' = c.ws
         /\ reference_count' = Track(reference_count, img[i], c.obj)
         /\ last' = Done(c.exc, [Call("__exit__", i) EXCEPT !.exc = c.exc])
  /\ UNCHANGED initial_count

\* Image.__del__ (lines 177-178): finalization of an object; the interpreter
\* reports and drops the exception recorded in last.exc
Del(i, ub) ==
  /\ Running
  /\ img[i].phase = "alive"
  /\ LET c == close(img[i], wands, ub)
     IN  /\ img' = [img EXCEPT ![i] = [c.obj EXCEPT !.phase = "finalized"]]
         /\ wands' = c.ws
         /\ reference_count' = Track(reference_count, img[i], c.obj)
         /\ last' = Done(c.exc, [Call("__del__", i) EXCEPT !.exc = c.exc])
  /\ UNCHANGED initial_count

\* Image.width (lines 252-255)
Width(i, ub) ==
  /\ Held(i)
  /\ LET exc == Use(img[i], wands, ub)
     IN  last' = Done(exc, [Call("width", i) EXCEPT
                   !.exc = exc,
                   !.ret = IF exc = "none"
                           THEN <<At(wands, img[i].h, ub).width>> ELSE <<>>])
  /\ UNCHANGED <<img, wands, reference_count, initial_count>>

\* Image.height (lines 257-260)
Height(i, ub) ==
  /\ Held(i)
  /\ LET exc == Use(img[i], wands, ub)
     IN  last' = Done(exc, [Call("height", i) EXCEPT
                   !.exc = exc,
                   !.ret = IF exc = "none"
                           THEN <<At(wands, img[i].h, ub).height>> ELSE <<>>])
  /\ UNCHANGED <<img, wands, reference_count, initial_count>>

\* Image.size (lines 262-265)
Size(i, ub) ==
  /\ Held(i)
  /\ LET exc == Use(img[i], wands, ub)
     IN  last' = Done(exc, [Call("size", i) EXCEPT
                   !.exc = exc,
                   !.ret = IF exc = "none"
                           THEN <<At(wands, img[i].h, ub).width,
                                  At(wands, img[i].h, ub).height>>
                           ELSE <<>>])
  /\ UNCHANGED <<img, wands, reference_count, initial_count>>

Resize(i, ub, width, height, filter, blur, nsev) ==
  /\ Held(i)
  /\ LET c == resize(img[i], wands, ub, width, height, filter, blur, nsev)
     IN  /\ wands' = c.ws
         /\ last' = Done(c.exc, [Call("resize", i) EXCEPT
                                   !.args = <<width, height, filter, blur>>,
                                   !.exc = c.exc, !.nsev = c.nsev])
  /\ UNCHANGED <<img, reference_count, initial_count>>

Save(i, ub, filename, r, nsev) ==
  /\ Held(i)
  /\ LET c == save(img[i], wands, ub, filename, r, nsev)
     IN  /\ wands' = c.ws
         /\ last' = Done(c.exc, [Call("save", i) EXCEPT
                                   !.args = <<filename>>, !.exc = c.exc,
                                   !.nsev = c.nsev, !.observed = c.observed])
  /\ UNCHANGED <<img, reference_count, initial_count>>

MakeBlob(i, ub, format, r) ==
  /\ Held(i)
  /\ LET exc == make_blob(img[i], wands, ub, format, r)
     IN  last' = Done(exc, [Call("make_blob", i) EXCEPT
                              !.args = <<format>>, !.exc = exc])
  /\ UNCHANGED <<img, wands, reference_count, initial_count>>

\* Image.__getitem__ (lines 203-250); nat is the native clone's outcome, a
\* the address of the clone's wand and cropsev the severity the native crop
\* records on it
GetItem(i, idx, nat, cropsev, a, ub) ==
  /\ Held(i)
  /\ a \in Allocatable
  /\ LET self == img[i]
         seen == At(wands, self.h, ub)
         plan == Plan(idx, self.wand = "handle", Aborts(wands, self.h, ub),
                      seen.width, seen.height)
         c == Image__init__(wands, a, PyImage(i), PyNone, PyNone, self, nat, ub)
         call == [Call("__getitem__", i) EXCEPT !.idx = idx]
     IN  IF plan.act = "raise"
         THEN /\ last' = Done(plan.exc, [call EXCEPT !.exc = plan.exc])
              /\ UNCHANGED <<img, wands, reference_count>>
         ELSE /\ HasFree
              /\ reference_count' = Track(reference_count, Unborn, c.obj)
              /\ IF c.exc # "none" \/ plan.act = "clone"
                 THEN /\ img' = [img EXCEPT ![NewId] = c.obj]
                      /\ wands' = c.ws
                      /\ last' = Done(c.exc, [call EXCEPT
                                                !.exc = c.exc,
                                                !.warned = c.warned,
                                                !.observed = c.observed,
                                                !.new = NewId])
                 ELSE LET ws == [c.ws EXCEPT ![a] =
                                   MagickCropImage(c.ws[a], plan.rect, cropsev)]
                          mine == At(ws, self.h, ub)
                          e == raise_exception(mine.severity)
                      IN  /\ img' = [img EXCEPT
                                       ![NewId] = [c.obj EXCEPT
                                                     !.held = e.exc = "none"]]
                          /\ wands' = On(ws, self.h,
                                         [mine EXCEPT !.severity = 0])
                          /\ last' = [call EXCEPT
                                        !.exc = e.exc,
                                        !.warned = c.warned \/ e.warned,
                                        !.observed = c.observed \union
                                            (IF mine.severity = 0 THEN {}
                                             ELSE {mine.severity}),
                                        !.nsev = cropsev, !.new = NewId,
                                        !.cropped = TRUE, !.rect = plan.rect]
  /\ UNCHANGED initial_count

\* ------------------------------------------------------ specifications
Dims == 1..MaxDim

\* native outcomes of a constructor: handle validity, severity, decoded size
Natives(sevs, ds) ==
  {Native(v, sv, w, h) : v \in BOOLEAN, sv \in sevs, w \in ds, h \in ds}

\* what a native call can do with a handle whose wand was destroyed
Outcomes ==
  {Undefined(TRUE, FALSE, 0, 0, 0)}
    \union {Undefined(FALSE, ok, w, h, sev) :
               ok \in BOOLEAN, w \in 0..1, h \in 0..1, sev \in {0, 400}}

\* the outcomes of a native call through the handle of image i
UBs(i) == IF Dangling(i) THEN Outcomes ELSE {Defined}

\* the outcomes of the native calls of a constructor given image
UBsOf(image) == IF image.t = "image" THEN UBs(image.v) ELSE {Defined}

\* constructor calls <<image, blob, filename>>: none, two and each one of
\* the arguments, with every kind of image and blob
InitArgs ==
  {<<PyNone, PyNone, PyNone>>, <<PyNone, PyStr("data"), PyStr("a.png")>>,
   <<PyStr("img"), PyNone, PyNone>>, <<PyNone, PyNone, PyStr("a.png")>>}
    \union {<<PyImage(j), PyNone, PyNone>> : j \in Ids}
    \union {<<PyNone, b, PyNone>> :
               b \in {PyStr("data"), PyChunks, PyBadChunks, PyInt(5)}}

\* index bounds and components
IntBounds == {PyNone} \union {PyInt(n) : n \in -(MaxIdx + 1)..MaxIdx}
Components ==
  {Slice(a, b, PyNone) : a \in IntBounds, b \in IntBounds}
    \union {Single(PyInt(n)) : n \in -MaxIdx..MaxIdx}
    \union {Slice(PyFloat, PyNone, PyNone), Slice(PyNone, PyNone, PyInt(2)),
            Single(PyNone), Single(PyFloat)}
Indexes == {Idx(<<x, y>>) : x \in Components, y \in Components}
             \union {ScalarIdx, Idx(<<>>), Idx(<<Single(PyInt(0))>>),
                     Idx(<<Single(PyInt(0)), Single(PyInt(0)),
                           Single(PyInt(0))>>)}

FullSlice == Slice(PyNone, PyNone, PyNone)
FewIndexes ==
  {Idx(<<FullSlice, FullSlice>>),
   Idx(<<Slice(PyInt(0), PyInt(1), PyNone), Slice(PyInt(-1), PyNone, PyNone)>>),
   Idx(<<Single(PyInt(0)), Slice(PyNone, PyInt(1), PyNone)>>),
   Idx(<<Single(PyInt(0)), Single(PyInt(0))>>),
   Idx(<<FullSlice, Slice(PyNone, PyNone, PyInt(2))>>)}

\* resize calls on an image of size (W, H): doubling with each kind of blur,
\* the defaults, and one call per rejected argument
ResizeArgs(W, H) ==
  {<<PyInt(2 * W), PyInt(2 * H), PyStr("lanczos"), PyFloat>>,
   <<PyInt(2 * W), PyInt(2 * H), PyStr("lanczos"), PyInt(1)>>,
   <<PyNone, PyNone, PyInt(13), PyFraction>>,
   <<PyInt(0), PyNone, PyStr("lanczos"), PyInt(1)>>,
   <<PyNone, PyFloat, PyStr("lanczos"), PyInt(1)>>,
   <<PyNone, PyNone, PyStr("bogus"), PyInt(1)>>,
   <<PyNone, PyNone, PyInt(16), PyInt(1)>>,
   <<PyNone, PyNone, PyNone, PyInt(1)>>}

\* the lifecycle of images used through their methods: every constructor
\* path, every way of closing, every operation on open and closed images
Next ==
  \/ \E a \in InitArgs, nat \in Natives(Severities, {1}), x \in Allocatable :
       \E ub \in UBsOf(a[1]) : Construct(a[1], a[2], a[3], nat, x, ub)
  \/ \E i \in Ids, nat \in Natives(Severities, {1}), x \in Allocatable :
       \E ub \in UBs(i) : Clone(i, nat, x, ub)
  \/ \E i \in Ids : \E ub \in UBs(i) : Close(i, ub)
  \/ \E i \in Ids : \E ub \in UBs(i) : Exit(i, ub)
  \/ \E i \in Ids : \E ub \in UBs(i) : Del(i, ub)
  \/ \E i \in Ids : \E ub \in UBs(i) : Width(i, ub)
  \/ \E i \in Ids : \E ub \in UBs(i) : Height(i, ub)
  \/ \E i \in Ids : \E ub \in UBs(i) : Size(i, ub)
  \/ \E i \in Ids, a \in {<<PyNone, PyNone, PyStr("triangle"), PyInt(1)>>,
                          <<PyInt(1), PyInt(1), PyInt(3), PyInt(1)>>,
                          <<PyInt(1), PyInt(1), PyStr("bogus"), PyInt(1)>>} :
       \E ub \in UBs(i) : Resize(i, ub, a[1], a[2], a[3], a[4], 0)
  \/ \E i \in Ids, filename \in {PyStr("a.png"), PyInt(5)} :
       \E ub \in UBs(i) : Save(i, ub, filename, TRUE, 0)
  \/ \E i \in Ids, a \in {<<PyStr("png"), TRUE>>, <<PyStr("bogus"), FALSE>>,
                          <<PyInt(5), FALSE>>} :
       \E ub \in UBs(i) : MakeBlob(i, ub, a[1], a[2])
  \/ \E i \in Ids, idx \in FewIndexes, x \in Allocatable :
       \E ub \in UBs(i) : GetItem(i, idx, Native(TRUE, 0, 1, 1), 0, x, ub)

Spec == Init /\ [][Next]_vars

\* the same lifecycle where the holders of the images also delete and assign
\* the wand property themselves, so that images come to share a wand and to
\* refer to a destroyed one
NextWand ==
  \/ Next
  \/ \E i \in Ids : \E ub \in UBs(i) : DelWand(i, ub)
  \/ \E i \in Ids, nat \in Natives({0}, {1}), x \in Allocatable :
       SetWand(i, nat, x)
  \/ \E i \in Ids, j \in Ids : \E ub \in UBs(j) : ShareWand(i, j, ub)

SpecWand == Init /\ [][NextWand]_vars

\* operations on open images with every outcome of the native calls; sizes
\* stay within twice the largest decoded size
NextOps ==
  \/ \E nat \in Natives({0}, Dims), x \in Allocatable :
       /\ nat.valid
       /\ Construct(PyNone, PyNone, PyStr("a.png"), nat, x, Defined)
  \/ \E i \in Ids : Size(i, Defined)
  \/ \E i \in Ids, nsev \in Severities :
       \E a \in ResizeArgs(WidthOf(i), HeightOf(i)) :
         /\ WidthOf(i) <= MaxDim /\ HeightOf(i) <= MaxDim
         /\ Resize(i, Defined, a[1], a[2], a[3], a[4], nsev)
  \/ \E i \in Ids, r \in BOOLEAN, nsev \in Severities :
       Save(i, Defined, PyStr("a.png"), r, nsev)
  \/ \E i \in Ids, nat \in Natives(Severities, {1}), cropsev \in Severities,
        x \in Allocatable :
       \E idx \in {Idx(<<Slice(PyNone, PyNone, PyNone),
                         Slice(PyNone, PyNone, PyNone)>>),
                   Idx(<<Slice(PyInt(0), PyInt(1), PyNone),
                         Slice(PyNone, PyInt(1), PyNone)>>)} :
         /\ nat.valid
         /\ GetItem(i, idx, nat, cropsev, x, Defined)
  \/ \E i \in Ids : GetException(i, Defined)
  \/ \E i \in Ids : RaiseException(i, Defined)

SpecOps == Init /\ [][NextOps]_vars

\* 2-D indexing: every index expression applied to a newly opened image of
\* every size
NextIndex ==
  \/ /\ last.op = "none"
     /\ \E w \in Dims, h \in Dims, x \in Allocatable :
          Construct(PyNone, PyNone, PyStr("a.png"), Native(TRUE, 0, w, h),
                    x, Defined)
  \/ /\ last.op = "__init__"
     /\ \E i \in Ids, idx \in Indexes, x \in Allocatable :
          GetItem(i, idx, Native(TRUE, 0, 1, 1), 0, x, Defined)

SpecIndex == Init /\ [][NextIndex]_vars

\* ------------------------------------------------------------- claims
CloseOps == {"close", "__exit__", "__del__"}

\* every object that was allocated is closed or finalized
AllSettled ==
  /\ \E i \in Ids : img[i].phase # "unborn"
  /\ \A i \in Ids : \/ img[i].phase \in {"unborn", "finalized"}
                    \/ img[i].wand = "none"

\* no wand property was assigned or deleted other than by the methods of
\* its image
NoDirectUse == \A i \in Ids : img[i].direct = 0

\* C1: once every Image of a sequence of constructions, uses, closes, block
\* exits and finalizations is closed or finalized, the resource counter
\* equals the value it had before the sequence.
C1_CounterRestored ==
  (AllSettled /\ NoDirectUse) => reference_count = initial_count

\* C2: when a constructor raises after it incremented the resource counter,
\* the counter has been decremented by the time the error reaches the caller.
C2_DecrementedOnFailure ==
  (/\ last.op \in {"__init__", "clone"}
   /\ last.exc # "none"
   /\ img[last.new].incs = 1) => img[last.new].decs = 1

\* C3: a successfully constructed image has its handle destroyed once and the
\* counter decremented once over any sequence of close, __exit__ and __del__,
\* and a close attempt on a closed image changes neither handle nor counter.
C3_ClosedOnce ==
  /\ [](NoDirectUse =>
          /\ \A x \in WandIds : wands[x].destroys <= 1
          /\ \A i \in Ids : img[i].ctor = "ok" =>
                /\ img[i].destroys = img[i].decs
                /\ img[i].destroys <= 1
                /\ (img[i].wand = "handle") = (img[i].destroys = 0)
                /\ img[i].wand = "handle" => Live(wands, img[i].h)
                /\ img[i].phase = "finalized" => img[i].destroys = 1)
  /\ [][\A i \in Ids :
          (/\ last'.op \in CloseOps
           /\ last'.self = i
           /\ img[i].ctor = "ok"
           /\ NoDirectUse
           /\ img[i].wand = "none")
          => /\ img'[i].wand = "none"
             /\ img'[i].destroys = img[i].destroys
             /\ wands' = wands
             /\ reference_count' = reference_count
             /\ last'.exc = "ClosedImageError"]_vars

C3_Witness ==
  /\ last.op \in CloseOps
  /\ last.closed
  /\ img[last.self].ctor = "ok"
  /\ NoDirectUse
  /\ img[last.self].destroys = 1
  /\ img[last.self].decs = 1

\* arguments that an operation accepts on an open image
AcceptableSize(a) == IsNone(a) \/ (IsIntegral(a) /\ a.v >= 1)

AcceptableFilter(f) ==
  \/ IsString(f) /\ f.s \in Range(FILTER_TYPES)
  \/ IsIntegral(f) /\ 0 <= f.v /\ f.v < Len(FILTER_TYPES)

AcceptableBound(b) == IsNone(b) \/ IsIntegral(b)

AcceptableComponent(c) ==
  IF c.isslice
  THEN AcceptableBound(c.start) /\ AcceptableBound(c.stop) /\ IsNone(c.step)
  ELSE IsIntegral(c.value)

AcceptableIndex(idx) ==
  /\ idx.iterable
  /\ Len(idx.items) = 2
  /\ idx.items[1].isslice \/ idx.items[2].isslice
  /\ AcceptableComponent(idx.items[1])
  /\ AcceptableComponent(idx.items[2])

Acceptable(call) ==
  CASE call.op = "resize" -> /\ AcceptableSize(call.args[1])
                             /\ AcceptableSize(call.args[2])
                             /\ AcceptableFilter(call.args[3])
                             /\ IsRational(call.args[4])
    [] call.op \in {"save", "make_blob"} -> IsString(call.args[1])
    [] call.op = "__getitem__" -> AcceptableIndex(call.idx)
    [] OTHER -> TRUE

UseOps == {"width", "height", "size", "resize", "save", "make_blob", "clone",
           "__getitem__", "close"}

\* C4: after close() has succeeded on an image, every later width, height,
\* size, resize, save, make_blob, clone, 2-D indexing or close on it, with
\* arguments an open image accepts, fails with ClosedImageError.
C4_UseAfterClose ==
  (/\ last.op \in UseOps
   /\ last.closed
   /\ NoDirectUse
   /\ Acceptable(last))
    => last.exc = "ClosedImageError"

C4_Witness ==
  /\ last.op = "resize"
  /\ last.closed
  /\ NoDirectUse
  /\ Acceptable(last)
  /\ ~IsNone(last.args[1])
  /\ last.exc = "ClosedImageError"

\* the outcome of an indexing: the error raised, or the rectangle cropped
Outcome(exc, cropped, rect) == [exc |-> exc, cropped |-> cropped, rect |-> rect]

OutcomeOf(plan) == Outcome(plan.exc, plan.act = "crop", plan.rect)

\* the call indexed an open image with [-a:-b, -c:-d], a, b, c, d positive
NegativeSlices(call) ==
  /\ call.op = "__getitem__"
  /\ ~call.closed
  /\ call.idx.iterable
  /\ Len(call.idx.items) = 2
  /\ \A k \in 1..2 : /\ call.idx.items[k].isslice
                     /\ IsNone(call.idx.items[k].step)
                     /\ IsIntegral(call.idx.items[k].start)
                     /\ IsIntegral(call.idx.items[k].stop)
                     /\ call.idx.items[k].start.v < 0
                     /\ call.idx.items[k].stop.v < 0

\* [W-a:W-b, H-c:H-d] for the [-a:-b, -c:-d] of the call
FromTheEnd(call) ==
  Idx(<<Slice(PyInt(call.prew + call.idx.items[1].start.v),
              PyInt(call.prew + call.idx.items[1].stop.v), PyNone),
        Slice(PyInt(call.preh + call.idx.items[2].start.v),
              PyInt(call.preh + call.idx.items[2].stop.v), PyNone)>>)

\* C5 as stated: for all positive a, b, c, d, image[-a:-b, -c:-d] has the
\* same outcome as image[W-a:W-b, H-c:H-d].
C5_NegativeEquivalence ==
  NegativeSlices(last) =>
    Outcome(last.exc, last.cropped, last.rect)
      = OutcomeOf(Plan(FromTheEnd(last), TRUE, FALSE, last.prew, last.preh))

\* C5 amended: for positive a, b not above W and c, d not above H,
\* image[-a:-b, -c:-d] has the same outcome as image[W-a:W-b, H-c:H-d].
C5_NegativeEquivalenceInRange ==
  (/\ NegativeSlices(last)
   /\ -last.idx.items[1].start.v <= last.prew
   /\ -last.idx.items[1].stop.v <= last.prew
   /\ -last.idx.items[2].start.v <= last.preh
   /\ -last.idx.items[2].stop.v <= last.preh) =>
    Outcome(last.exc, last.cropped, last.rect)
      = OutcomeOf(Plan(FromTheEnd(last), TRUE, FALSE, last.prew, last.preh))

C5_Witness ==
  /\ NegativeSlices(last)
  /\ last.idx.items[1].start.v = -last.prew
  /\ last.idx.items[2].start.v = -last.preh
  /\ last.prew > 1
  /\ last.cropped
  /\ last.rect.x = 0
  /\ last.rect.w = last.prew - 1

\* v addresses an existing column or row of a dimension of size m
Addresses(v, m) == (0 <= v /\ v <= m - 1) \/ (-m <= v /\ v <= -1)

Position(v, m) == IF v < 0 THEN m + v ELSE v

\* the slice alone, with the other axis left open, is indexable
Indexable(x, y, call) ==
  Plan(Idx(<<x, y>>), TRUE, FALSE, call.prew, call.preh).act # "raise"

\* C6: with an integer v on one axis that addresses an existing column or
\* row and a slice on the other, indexing crops the one-element range at v
\* on that axis: start v (dimension + v when v is negative) and size 1.
C6_SingleValueAxis ==
  (/\ last.op = "__getitem__"
   /\ ~last.closed
   /\ AcceptableIndex(last.idx)) =>
    LET x == last.idx.items[1]
        y == last.idx.items[2]
    IN  /\ (/\ ~x.isslice
            /\ Addresses(x.value.v, last.prew)
            /\ Indexable(FullSlice, y, last))
           => /\ last.cropped
              /\ last.rect.x = Position(x.value.v, last.prew)
              /\ last.rect.w = 1
        /\ (/\ ~y.isslice
            /\ Addresses(y.value.v, last.preh)
            /\ Indexable(x, FullSlice, last))
           => /\ last.cropped
              /\ last.rect.y = Position(y.value.v, last.preh)
              /\ last.rect.h = 1

\* C7: when the native resize of resize(), or the native crop applied to the
\* clone during indexing, records an error on its handle, the operation
\* raises the severity-mapped error.
C7_NativeFailureRaised ==
  (/\ \/ last.op = "resize"
      \/ last.op = "__getitem__" /\ last.cropped
   /\ last.nsev >= 400) => last.exc = "MagickError"

\* C8: on an open image of size (W, H), resize(2W, 2H, 'lanczos', 1.0)
\* completes without raising and width and height then report 2W and 2H.
C8_ResizeDoubles ==
  (/\ last.op = "resize"
   /\ ~last.closed
   /\ last.args = <<PyInt(2 * last.prew), PyInt(2 * last.preh),
                    PyStr("lanczos"), PyFloat>>) =>
    /\ last.exc = "none"
    /\ WidthOf(last.self) = 2 * last.prew
    /\ HeightOf(last.self) = 2 * last.preh

\* C9: a native condition of warning severity observed by construction,
\* indexing or save is only emitted as a warning and the operation completes;
\* an operation raises a native exception only for an error severity.
C9_WarningsNonFatal ==
  last.op \in {"__init__", "clone", "__getitem__", "save"} =>
    /\ (300 \in last.observed /\ 400 \notin last.observed)
         => (last.exc = "none" /\ last.warned)
    /\ last.exc \in {"MagickWarning", "MagickError"} => 400 \in last.observed

\* C10: the rectangle that indexing passes to the native crop lies inside
\* the image.
C10_RectInside ==
  (last.op = "__getitem__" /\ last.cropped) =>
    /\ last.rect.x >= 0
    /\ last.rect.y >= 0
    /\ last.rect.w >= 1
    /\ last.rect.h >= 1
    /\ last.rect.x + last.rect.w <= last.prew
    /\ last.rect.y + last.rect.h <= last.preh

====
